---- MODULE Spec2Model ----
(***************************************************************************)
(* librb/src/gnutls.c: the asynchronous TLS session driver of charybdis.   *)
(*                                                                         *)
(* The model follows one listening descriptor "L" and one session          *)
(* descriptor "N" through the accept and connect flows, the readiness and  *)
(* timer events of the event loop, and the record read/write shim.  The    *)
(* TLS engine (GnuTLS) and the application callbacks are the environment:  *)
(* every engine call draws its result, its record direction and the errno  *)
(* it leaves behind from small sets; an application callback records the   *)
(* call (with a snapshot of the descriptor at that moment) and returns     *)
(* without touching the descriptor.                                        *)
(*                                                                         *)
(* The program is single threaded and every handler runs to completion,    *)
(* so each handler is one action.  Handlers are written as operators from  *)
(* a state record to a state record and composed in program order.         *)
(***************************************************************************)
EXTENDS Integers, Sequences, FiniteSets, TLC

VARIABLES type, ssl, accept, ad, connect, sconn, timeout, read_handler,
          write_handler, ssl_errno, errno, engine, hs_steps, cbLog, lastHs,
          lastRW, ev, asserts, crashed, started, destroyed, sess,
          x509, dh_params, default_priority, x509_cert_count, x509_cert,
          x509_key, setup, fp, staleUses

vars == <<type, ssl, accept, ad, connect, sconn, timeout, read_handler,
          write_handler, ssl_errno, errno, engine, hs_steps, cbLog, lastHs,
          lastRW, ev, asserts, crashed, started, destroyed, sess,
          x509, dh_params, default_priority, x509_cert_count, x509_cert,
          x509_key, setup, fp, staleUses>>

\* the process-wide credential state (lines 42-50) and the last call of
\* rb_setup_ssl_server
credvars == <<x509, dh_params, default_priority, x509_cert_count, x509_cert,
              x509_key, setup>>

(* ---------------------------------------------------------------- bounds *)

\* handshake steps taken on one descriptor before the model stops stepping it
MaxSteps == 3
\* largest byte count passed to rb_ssl_read / rb_ssl_write
MaxCount == 2
\* calls of rb_ssl_shutdown on one descriptor that reach gnutls_deinit
MaxShutdowns == 2
\* how many times rb_setup_ssl_server is called (start-up and rehash)
MaxSetups == 2

(* ------------------------------------------------------------- constants *)

GNUTLS_E_SUCCESS == 0
GNUTLS_E_AGAIN == -28
GNUTLS_E_INTERRUPTED == -52
\* two fatal engine codes: GNUTLS_E_UNEXPECTED_PACKET_LENGTH, GNUTLS_E_FATAL_ALERT_RECEIVED
GNUTLS_E_UNEXPECTED_PACKET_LENGTH == -9
GNUTLS_E_FATAL_ALERT_RECEIVED == -12

RB_RW_IO_ERROR == -1
RB_RW_SSL_NEED_READ == -3
RB_RW_SSL_NEED_WRITE == -4

EIO == 5
EAGAIN == 11
\* the capacity of the x509_cert array
MAX_CERTS == 6
\* the most bytes of a file rb_load_file_into_datum_t reads
DatumCap == 131072
\* digest lengths
RB_SSL_CERTFP_LEN_SHA1 == 20
RB_SSL_CERTFP_LEN_SHA256 == 32
RB_SSL_CERTFP_LEN_SHA512 == 64
RB_SSL_CERTFP_LEN == RB_SSL_CERTFP_LEN_SHA512

RB_SSL_CERTFP_METH_CERT_SHA1 == "RB_SSL_CERTFP_METH_CERT_SHA1"
RB_SSL_CERTFP_METH_CERT_SHA256 == "RB_SSL_CERTFP_METH_CERT_SHA256"
RB_SSL_CERTFP_METH_CERT_SHA512 == "RB_SSL_CERTFP_METH_CERT_SHA512"
RB_SSL_CERTFP_METH_SPKI_SHA256 == "RB_SSL_CERTFP_METH_SPKI_SHA256"
RB_SSL_CERTFP_METH_SPKI_SHA512 == "RB_SSL_CERTFP_METH_SPKI_SHA512"

RB_OK == "RB_OK"
RB_ERR_BIND == "RB_ERR_BIND"
RB_ERR_TIMEOUT == "RB_ERR_TIMEOUT"
RB_ERR_CONNECT == "RB_ERR_CONNECT"
RB_ERROR_SSL == "RB_ERROR_SSL"

RB_SELECT_READ == "RB_SELECT_READ"
RB_SELECT_WRITE == "RB_SELECT_WRITE"
RB_FD_SSL == "RB_FD_SSL"

NULL == "NULL"

(* ------------------------------------------------------------ the domain *)

\* "L" is a listening descriptor (rb_ssl_listen), "N" a freshly accepted or
\* freshly opened descriptor.
FDs == {"L", "N"}

FatalCodes == {GNUTLS_E_UNEXPECTED_PACKET_LENGTH, GNUTLS_E_FATAL_ALERT_RECEIVED}
\* what gnutls_handshake can return
HsRets == {GNUTLS_E_SUCCESS, GNUTLS_E_AGAIN, GNUTLS_E_INTERRUPTED} \cup FatalCodes
\* what gnutls_record_recv / gnutls_record_send can return
IoRets == (0..MaxCount) \cup {GNUTLS_E_AGAIN, GNUTLS_E_INTERRUPTED} \cup FatalCodes
WouldBlock == {GNUTLS_E_AGAIN, GNUTLS_E_INTERRUPTED}
\* what a system call inside the engine can leave in errno: one value that
\* rb_ignore_errno accepts and one that it does not
Errnos == {EAGAIN, EIO}
\* one engine call: its return value, gnutls_record_get_direction afterwards
\* (read only after a would-block result) and errno afterwards
EngAnswers(rets) ==
  {e \in [ret : rets, dir : {0, 1}, eno : Errnos] : e.ret \notin WouldBlock => e.dir = 0}
EngSteps == EngAnswers(HsRets)
\* the peer address handed to rb_ssl_accept_setup
PeerAddrs == {[S |-> "in4", addrlen |-> 16], [S |-> "in6", addrlen |-> 28]}
\* completion statuses of the raw TCP connect
TcpStatuses == {RB_OK, RB_ERR_BIND, RB_ERR_CONNECT, RB_ERR_TIMEOUT}
\* outcomes of a read through a null pointer
NullOutcomes == {"crash", "skip"}
\* outcomes of a read of freed memory followed by a second free
FreedOutcomes == {"crash", "stale", "null"}

NoAd == [state |-> "none", callback |-> NULL, data |-> NULL, S |-> "zero", addrlen |-> 0]
NoHandler == [handler |-> NULL, data |-> NULL]
NoConnect == [state |-> "none", callback |-> NULL, data |-> NULL]
NoSconn == [state |-> "none", callback |-> NULL, data |-> NULL]
NoHs == [F |-> NULL, ret |-> 0, dir |-> 0, eno |-> 0, rv |-> 1, callback |-> NULL,
         data |-> NULL]
NoRW == [r_or_w |-> 0, F |-> NULL, ret |-> 0, dir |-> 0, eno |-> 0, rv |-> 0,
         before |-> 0, after |-> 0]
NoEv == [kind |-> "none", F |-> NULL, arg |-> NULL]
\* a session nothing was configured on
NoSess == [cred |-> NULL, priority |-> "unset"]
\* the engine answer handed to a handler that takes no engine step
NoEng == [ret |-> GNUTLS_E_SUCCESS, dir |-> 0, eno |-> EAGAIN]

(* The whole program state as one record, so that handlers compose. *)
Cur ==
  [type |-> type, ssl |-> ssl, accept |-> accept, ad |-> ad, connect |-> connect,
   sconn |-> sconn, timeout |-> timeout, read_handler |-> read_handler,
   write_handler |-> write_handler, ssl_errno |-> ssl_errno, errno |-> errno,
   engine |-> engine, hs_steps |-> hs_steps, cbLog |-> cbLog, lastHs |-> lastHs,
   lastRW |-> lastRW, ev |-> ev, asserts |-> asserts, crashed |-> crashed,
   started |-> started, destroyed |-> destroyed, sess |-> sess,
   staleUses |-> staleUses,
   default_priority |-> default_priority]

Commit(s) ==
  /\ type' = s.type
  /\ ssl' = s.ssl
  /\ accept' = s.accept
  /\ ad' = s.ad
  /\ connect' = s.connect
  /\ sconn' = s.sconn
  /\ timeout' = s.timeout
  /\ read_handler' = s.read_handler
  /\ write_handler' = s.write_handler
  /\ ssl_errno' = s.ssl_errno
  /\ errno' = s.errno
  /\ engine' = s.engine
  /\ hs_steps' = s.hs_steps
  /\ cbLog' = s.cbLog
  /\ lastHs' = s.lastHs
  /\ lastRW' = s.lastRW
  /\ ev' = s.ev
  /\ asserts' = s.asserts
  /\ crashed' = s.crashed
  /\ started' = s.started
  /\ destroyed' = s.destroyed
  /\ sess' = s.sess
  /\ staleUses' = s.staleUses
  /\ UNCHANGED <<credvars, fp>>

(* ------------------------------------------------- event loop primitives *)

\* rb_ignore_errno: the errno values that mean "try again"
rb_ignore_errno(e) == e \in {EAGAIN}

\* rb_setselect(F, flags, handler, data): sets the handler of each direction
\* named in flags and leaves the other direction alone
rb_setselect(s, F, flags, handler, data) ==
  [s EXCEPT
     !.read_handler[F] = IF RB_SELECT_READ \in flags
                         THEN [handler |-> handler, data |-> data] ELSE @,
     !.write_handler[F] = IF RB_SELECT_WRITE \in flags
                          THEN [handler |-> handler, data |-> data] ELSE @]

\* rb_settimeout(F, timeout, callback, data): a NULL callback removes the timer
rb_settimeout(s, F, callback, data) ==
  [s EXCEPT !.timeout[F] = [handler |-> callback, data |-> data]]

\* the process dies (SIGSEGV, abort): nothing runs afterwards
Crash(s) == [s EXCEPT !.crashed = TRUE]

\* lrb_assert(cond): a soft assertion, it logs and execution continues
lrb_assert(s, name, cond) ==
  IF cond THEN s ELSE [s EXCEPT !.asserts = @ \cup {name}]

\* An application accept callback (ACCB) is invoked: it sees the descriptor
\* as it is at this moment.
InvokeACCB(s, F, callback, status, S, addrlen, data, ctx) ==
  [s EXCEPT !.cbLog = Append(@,
     [kind |-> "accept", fn |-> callback, F |-> F, status |-> status, S |-> S,
      addrlen |-> addrlen, data |-> data,
      acceptNull |-> (s.accept[F] = NULL),
      ctxState |-> IF ctx = NULL THEN "none" ELSE s.ad[ctx].state,
      timerArmed |-> (s.timeout[F].handler # NULL),
      selectArmed |-> (s.read_handler[F].handler # NULL
                       \/ s.write_handler[F].handler # NULL),
      engine |-> s.engine[F],
      ssl_errno |-> s.ssl_errno[F],
      hsret |-> s.lastHs.ret])]

\* rb_free(ad)
FreeAd(s, ctx) == [s EXCEPT !.ad[ctx].state = "freed"]

(* ------------------------------------------------- session configuration *)

\* gnutls_credentials_set(SSL_P(F), GNUTLS_CRD_CERTIFICATE, x509) ...
\* gnutls_priority_set(SSL_P(F), default_priority): the session of F is bound
\* to the credentials and to the priority handle as it is now
configure_session(s, F) ==
  [s EXCEPT !.sess[F] = [cred |-> "x509", priority |-> s.default_priority]]

(* -------------------------------------------------------------- shutdown *)

\* byes is the number of gnutls_bye attempts the loop makes (it stops at the
\* first GNUTLS_E_SUCCESS, after four at the latest).  F->ssl is freed but
\* not cleared: it stays non-NULL and dangling.
rb_ssl_shutdown(s, F, byes) ==
  IF F = NULL \/ s.ssl[F] = NULL
  THEN s
  ELSE [s EXCEPT !.engine[F] = "deinit",
                 !.destroyed[F] = @ + 1,
                 !.ssl[F] = "freed",
                 !.ev = [kind |-> "rb_ssl_shutdown", F |-> F, arg |-> byes]]

(* ------------------------------------------------------ handshake driver *)

\* gnutls_handshake(SSL_P(F)) as the engine eng answers it
gnutls_handshake(s, F, eng) ==
  [s EXCEPT !.errno = eng.eno,
            !.hs_steps[F] = @ + 1,
            !.engine[F] = IF eng.ret >= 0 THEN "done"
                          ELSE IF eng.ret \in FatalCodes THEN "failed"
                          ELSE "pending"]

\* do_ssl_handshake that forgets to record the engine's code on failure
do_ssl_handshake_nostore(s, F, eng, callback, data) ==
  LET s1 == gnutls_handshake(s, F, eng)
      ret == eng.ret
      flags == IF eng.dir = 0 THEN {RB_SELECT_READ} ELSE {RB_SELECT_WRITE}
      rv == IF ret < 0
            THEN IF (ret = GNUTLS_E_INTERRUPTED /\ rb_ignore_errno(s1.errno))
                    \/ ret = GNUTLS_E_AGAIN
                 THEN 0 ELSE -1
            ELSE 1
      s2 == IF rv = 0 THEN rb_setselect(s1, F, flags, callback, data) ELSE s1
  IN [st |-> [s2 EXCEPT !.lastHs =
                [F |-> F, ret |-> ret, dir |-> eng.dir, eno |-> eng.eno, rv |-> rv,
                 callback |-> callback, data |-> data]],
      rv |-> rv]

\* do_ssl_handshake registering both directions on would-block
do_ssl_handshake_bothdirs(s, F, eng, callback, data) ==
  LET s1 == gnutls_handshake(s, F, eng)
      ret == eng.ret
      rv == IF ret < 0
            THEN IF (ret = GNUTLS_E_INTERRUPTED /\ rb_ignore_errno(s1.errno))
                    \/ ret = GNUTLS_E_AGAIN
                 THEN 0 ELSE -1
            ELSE 1
      s2 == IF rv = 0 THEN rb_setselect(s1, F, {RB_SELECT_READ, RB_SELECT_WRITE},
                                        callback, data)
            ELSE IF rv = -1 THEN [s1 EXCEPT !.ssl_errno[F] = ret]
            ELSE s1
  IN [st |-> [s2 EXCEPT !.lastHs =
                [F |-> F, ret |-> ret, dir |-> eng.dir, eno |-> eng.eno, rv |-> rv,
                 callback |-> callback, data |-> data]],
      rv |-> rv]

do_ssl_handshake(s, F, eng, callback, data) ==
  LET s1 == gnutls_handshake(s, F, eng)
      ret == eng.ret
      flags == IF eng.dir = 0 THEN {RB_SELECT_READ} ELSE {RB_SELECT_WRITE}
      rv == IF ret < 0
            THEN IF (ret = GNUTLS_E_INTERRUPTED /\ rb_ignore_errno(s1.errno))
                    \/ ret = GNUTLS_E_AGAIN
                 THEN 0 ELSE -1
            ELSE 1
      s2 == IF rv = 0 THEN rb_setselect(s1, F, flags, callback, data)
            ELSE IF rv = -1 THEN [s1 EXCEPT !.ssl_errno[F] = ret]
            ELSE s1
  IN [st |-> [s2 EXCEPT !.lastHs =
                [F |-> F, ret |-> ret, dir |-> eng.dir, eno |-> eng.eno, rv |-> rv,
                 callback |-> callback, data |-> data]],
      rv |-> rv]

(* ------------------------------------------------------------ accept flow *)

rb_ssl_timeout(s, F, ub) ==
  LET s1 == lrb_assert(s, "rb_ssl_timeout", s.accept[F] # NULL)
      ctx == s.accept[F]
  IN IF ctx = NULL
     THEN IF ub = "crash" THEN Crash(s1) ELSE s1
     ELSE InvokeACCB(s1, F, s1.ad[ctx].callback, RB_ERR_TIMEOUT, NULL, 0,
                     s1.ad[ctx].data, ctx)

rb_ssl_tryaccept(s, F, eng, ub) ==
  LET s0 == lrb_assert(s, "rb_ssl_tryaccept", s.accept[F] # NULL)
      h == do_ssl_handshake(s0, F, eng, "rb_ssl_tryaccept", NULL)
      s1 == h.st
      adp == s1.accept[F]
      s2 == [s1 EXCEPT !.accept[F] = NULL]
      s3 == rb_settimeout(s2, F, NULL, NULL)
      s4 == rb_setselect(s3, F, {RB_SELECT_READ, RB_SELECT_WRITE}, NULL, NULL)
      s5 == IF h.rv > 0
            THEN InvokeACCB(s4, F, s4.ad[adp].callback, RB_OK, s4.ad[adp].S,
                            s4.ad[adp].addrlen, s4.ad[adp].data, adp)
            ELSE InvokeACCB(s4, F, s4.ad[adp].callback, RB_ERROR_SSL, NULL, 0,
                            s4.ad[adp].data, adp)
  IN IF h.rv = 0 THEN s1
     ELSE IF adp = NULL
     THEN IF ub = "crash" THEN Crash(s4) ELSE s4
     ELSE FreeAd(s5, adp)

rb_ssl_start_accepted(s, new_F, cb, data, eng) ==
  LET s1 == [s EXCEPT !.type[new_F] = @ \cup {RB_FD_SSL},
                      !.ssl[new_F] = "alloc",
                      !.accept[new_F] = new_F,
                      !.ad[new_F] = [state |-> "live", callback |-> cb, data |-> data,
                                     S |-> "zero", addrlen |-> 0]]
      s2 == rb_settimeout(s1, new_F, "rb_ssl_timeout", NULL)
      s3 == configure_session([s2 EXCEPT !.engine[new_F] = "pending"], new_F)
      h == do_ssl_handshake(s3, new_F, eng, "rb_ssl_tryaccept", NULL)
      s4 == h.st
      adp == s4.accept[new_F]
      s5 == [s4 EXCEPT !.accept[new_F] = NULL]
      s6 == InvokeACCB(s5, new_F, s5.ad[adp].callback, RB_OK, s5.ad[adp].S,
                       s5.ad[adp].addrlen, s5.ad[adp].data, adp)
  IN IF h.rv # 0 THEN FreeAd(s6, adp) ELSE s4

rb_ssl_accept_setup(s, F, new_F, st, eng, ub) ==
  LET lad == s.accept[F]
      s1 == [s EXCEPT !.type[new_F] = @ \cup {RB_FD_SSL},
                      !.ssl[new_F] = "alloc",
                      !.accept[new_F] = new_F,
                      !.ad[new_F] = [state |-> "live", callback |-> s.ad[lad].callback,
                                     data |-> s.ad[lad].data, S |-> "zero", addrlen |-> 0]]
      s2 == rb_settimeout(s1, new_F, "rb_ssl_timeout", NULL)
      s3 == [s2 EXCEPT !.ad[new_F].S = st.S, !.ad[new_F].addrlen = st.addrlen]
      \* gnutls_init(new_F->ssl, GNUTLS_SERVER)
      s4 == [s3 EXCEPT !.engine[new_F] = "pending"]
      \* SSL_P(x) expands to *F->ssl whatever x is: lines 196-201 and the
      \* handshake step work on the session of F, not of new_F
      s4c == configure_session(s4, F)
      h == do_ssl_handshake(s4c, F, eng, "rb_ssl_tryaccept", NULL)
      s5 == h.st
      adp == s5.accept[F]
      s6 == [s5 EXCEPT !.accept[F] = NULL]
      s7 == InvokeACCB(s6, F, s6.ad[adp].callback, RB_OK, s6.ad[adp].S,
                       s6.ad[adp].addrlen, s6.ad[adp].data, adp)
  IN IF lad = NULL
     THEN Crash(s)
     ELSE IF s4.ssl[F] = NULL /\ ub = "crash"
     THEN Crash(s4)
     ELSE IF h.rv # 0 THEN FreeAd(s7, adp) ELSE s5

(* ----------------------------------------------------------- connect flow *)

\* An application connect callback (CNCB) is invoked.
InvokeCNCB(s, F, callback, status, data) ==
  [s EXCEPT !.cbLog = Append(@,
     [kind |-> "connect", fn |-> callback, F |-> F, status |-> status, S |-> NULL,
      addrlen |-> 0, data |-> data,
      acceptNull |-> (s.accept[F] = NULL),
      ctxState |-> s.sconn.state,
      timerArmed |-> (s.timeout[F].handler # NULL),
      selectArmed |-> (s.read_handler[F].handler # NULL
                       \/ s.write_handler[F].handler # NULL),
      engine |-> s.engine[F],
      ssl_errno |-> s.ssl_errno[F],
      hsret |-> s.lastHs.ret])]

\* rb_connect_callback(F, status): takes the callback off F->connect, removes
\* the timer and calls it; nothing happens when there is no callback
rb_connect_callback(s, F, status) ==
  IF s.connect[F].state = "none" \/ s.connect[F].callback = NULL
  THEN s
  ELSE LET hdl == s.connect[F].callback
           data == s.connect[F].data
           s1 == [s EXCEPT !.connect[F].callback = NULL]
           s2 == rb_settimeout(s1, F, NULL, NULL)
       IN InvokeCNCB(s2, F, hdl, status, data)

rb_ssl_connect_realcb(s0, F, status, ub) ==
  LET \* sconn was freed before: its fields are read from freed memory and it
      \* is freed a second time
      s == IF s0.sconn.state = "freed" /\ ~s0.crashed
           THEN [s0 EXCEPT !.staleUses = @ \cup {status}]
           ELSE s0
      live == [s EXCEPT !.connect[F].callback = s.sconn.callback,
                        !.connect[F].data = s.sconn.data,
                        !.sconn.state = "freed"]
      garbage == [s EXCEPT !.connect[F].callback = NULL, !.connect[F].data = NULL]
  IN IF s.crashed THEN s
     ELSE IF s.sconn.state = "live" \/ ub = "stale"
     THEN rb_connect_callback(live, F, status)
     ELSE IF ub = "crash" THEN Crash(s)
     ELSE rb_connect_callback(garbage, F, status)

rb_ssl_tryconn_timeout_cb(s, F, ub) ==
  rb_ssl_connect_realcb(s, F, RB_ERR_TIMEOUT, ub)

rb_ssl_tryconn_cb(s, F, data, eng, ub1, ub2) ==
  LET h == do_ssl_handshake(s, F, eng, "rb_ssl_tryconn_cb", data)
  IN IF h.rv = -1
     THEN rb_ssl_connect_realcb(
            rb_ssl_connect_realcb(h.st, F, RB_ERROR_SSL, ub1), F, RB_OK, ub2)
     ELSE IF h.rv = 0
     THEN h.st
     ELSE rb_ssl_connect_realcb(h.st, F, RB_OK, ub1)

\* rb_ssl_tryconn without the return after forwarding a failed raw connect
rb_ssl_tryconn_noreturn(s, F, status, eng, ub) ==
  LET s0 == IF status # RB_OK THEN rb_ssl_connect_realcb(s, F, status, ub) ELSE s
      s1 == [s0 EXCEPT !.type[F] = @ \cup {RB_FD_SSL}]
      s2 == rb_settimeout(s1, F, "rb_ssl_tryconn_timeout_cb", "sconn")
      s3 == configure_session([s2 EXCEPT !.ssl[F] = "alloc", !.engine[F] = "pending"], F)
  IN do_ssl_handshake(s3, F, eng, "rb_ssl_tryconn_cb", "sconn").st

rb_ssl_tryconn(s, F, status, eng, ub) ==
  IF status # RB_OK
  THEN rb_ssl_connect_realcb(s, F, status, ub)
  ELSE LET s1 == [s EXCEPT !.type[F] = @ \cup {RB_FD_SSL}]
           s2 == rb_settimeout(s1, F, "rb_ssl_tryconn_timeout_cb", "sconn")
           s3 == configure_session([s2 EXCEPT !.ssl[F] = "alloc", !.engine[F] = "pending"], F)
       IN do_ssl_handshake(s3, F, eng, "rb_ssl_tryconn_cb", "sconn").st

\* rb_connect_tcp(F, dest, clocal, callback, data, timeout): starts the raw
\* connect; its completion is delivered through rb_connect_callback
rb_connect_tcp(s, F, callback, data) ==
  rb_settimeout([s EXCEPT !.connect[F] = [state |-> "live", callback |-> callback,
                                          data |-> data]],
                F, "rb_connect_timeout", NULL)

rb_connect_tcp_ssl(s, F, callback, data) ==
  IF F = NULL THEN s
  ELSE rb_connect_tcp([s EXCEPT !.sconn = [state |-> "live", callback |-> callback,
                                           data |-> data]],
                      F, "rb_ssl_tryconn", "sconn")

rb_ssl_start_connected(s, F, callback, data, eng) ==
  IF F = NULL THEN s
  ELSE LET s1 == [s EXCEPT !.sconn = [state |-> "live", callback |-> callback,
                                      data |-> data],
                           !.connect[F] = [state |-> "live", callback |-> callback,
                                           data |-> data],
                           !.type[F] = @ \cup {RB_FD_SSL},
                           !.ssl[F] = "alloc",
                           !.engine[F] = "pending"]
           s2 == rb_settimeout(configure_session(s1, F), F,
                               "rb_ssl_tryconn_timeout_cb", "sconn")
       IN do_ssl_handshake(s2, F, eng, "rb_ssl_tryconn_cb", "sconn").st

(* -------------------------------------------------------- read/write shim *)

\* rb_ssl_read_or_write choosing the would-block value by the requested
\* operation instead of the engine's record direction
rb_ssl_read_or_write_bydir(s, r_or_w, F, io) ==
  LET ret == io.ret
      s1 == [s EXCEPT !.errno = io.eno]
      again == ret \in {GNUTLS_E_AGAIN, GNUTLS_E_INTERRUPTED}
               /\ rb_ignore_errno(s1.errno)
      rv == IF ret < 0
            THEN IF again
                 THEN IF r_or_w = 0 THEN RB_RW_SSL_NEED_READ ELSE RB_RW_SSL_NEED_WRITE
                 ELSE RB_RW_IO_ERROR
            ELSE ret
      s2 == IF ret < 0 /\ ~again
            THEN [s1 EXCEPT !.ssl_errno[F] = ret, !.errno = EIO]
            ELSE s1
  IN [st |-> [s2 EXCEPT !.lastRW =
                [r_or_w |-> r_or_w, F |-> F, ret |-> ret, dir |-> io.dir,
                 eno |-> io.eno, rv |-> rv, before |-> s.ssl_errno[F],
                 after |-> s2.ssl_errno[F]]],
      rv |-> rv]

\* io is the engine's answer to gnutls_record_recv / gnutls_record_send
rb_ssl_read_or_write(s, r_or_w, F, io) ==
  LET ret == io.ret
      s1 == [s EXCEPT !.errno = io.eno]
      again == ret \in {GNUTLS_E_AGAIN, GNUTLS_E_INTERRUPTED}
               /\ rb_ignore_errno(s1.errno)
      rv == IF ret < 0
            THEN IF again
                 THEN IF io.dir = 0 THEN RB_RW_SSL_NEED_READ ELSE RB_RW_SSL_NEED_WRITE
                 ELSE RB_RW_IO_ERROR
            ELSE ret
      s2 == IF ret < 0 /\ ~again
            THEN [s1 EXCEPT !.ssl_errno[F] = ret, !.errno = EIO]
            ELSE s1
  IN [st |-> [s2 EXCEPT !.lastRW =
                [r_or_w |-> r_or_w, F |-> F, ret |-> ret, dir |-> io.dir,
                 eno |-> io.eno, rv |-> rv, before |-> s.ssl_errno[F],
                 after |-> s2.ssl_errno[F]]],
      rv |-> rv]

rb_ssl_read(s, F, io) == rb_ssl_read_or_write(s, 0, F, io)

rb_ssl_write(s, F, io) == rb_ssl_read_or_write(s, 1, F, io)

(* ------------------------------------------------------ credential store *)

\* The files rb_setup_ssl_server can be pointed at: whether the path opens,
\* how many bytes it holds and what those bytes are.
NoSuchFile == [exists |-> FALSE, size |-> 0, kind |-> "none", n |-> 0]
FileSystem(path) ==
  CASE path = "chain1.pem" -> [exists |-> TRUE, size |-> 1200, kind |-> "certs", n |-> 1]
    [] path = "chain7.pem" -> [exists |-> TRUE, size |-> 8400, kind |-> "certs", n |-> MAX_CERTS + 1]
    [] path = "junk.pem"   -> [exists |-> TRUE, size |-> 40, kind |-> "junk", n |-> 0]
    [] path = "huge.key"   -> [exists |-> TRUE, size |-> DatumCap + 1, kind |-> "key", n |-> 1]
    [] path = "own.key"    -> [exists |-> TRUE, size |-> 1700, kind |-> "key", n |-> 1]
    [] path = "other.key"  -> [exists |-> TRUE, size |-> 1700, kind |-> "key", n |-> 1]
    [] path = "dh.pem"     -> [exists |-> TRUE, size |-> 400, kind |-> "dh", n |-> 1]
    [] OTHER -> NoSuchFile

CertPaths == {NULL, "absent.pem", "junk.pem", "chain1.pem", "chain7.pem"}
KeyPaths == {"absent.pem", "huge.key", "own.key", "other.key"}
DhPaths == {NULL, "absent.pem", "junk.pem", "dh.pem"}
CipherLists == {"NORMAL", "+bogus"}

\* what the engine does to the caller's array when the list holds more
\* certificates than fit: it only counts them, or it imports as many as fit
\* and releases them again
ExceedOutcomes == {"counted", "released"}
\* whether gnutls_dh_params_init can allocate
DhInitOutcomes == {"ok", "nomem"}

NoDatum == [data |-> NULL, size |-> 0, whole |-> FALSE, kind |-> "none", n |-> 0]
NoCert == [file |-> NULL, idx |-> 0, live |-> FALSE]
NoKey == [state |-> "none", file |-> NULL]
NoSetup == [calls |-> 0, cert |-> NULL, keyfile |-> NULL, dhfile |-> NULL,
            cipher_list |-> NULL, ret |-> 0, log |-> << >>, trace |-> << >>]

\* the static state once rb_init_ssl allocated the credentials
InitCred ==
  /\ x509 = [pairs |-> {}, dh |-> NULL]
  /\ dh_params = NULL
  /\ default_priority = NULL
  /\ x509_cert_count = 0
  /\ x509_cert = [i \in 1..MAX_CERTS |-> NoCert]
  /\ x509_key = NoKey
  /\ setup = NoSetup

CurCred ==
  [x509 |-> x509, dh_params |-> dh_params, default_priority |-> default_priority,
   x509_cert_count |-> x509_cert_count, x509_cert |-> x509_cert,
   x509_key |-> x509_key, log |-> << >>, trace |-> << >>]

CommitCred(r, cert, keyfile, dhfile, cipher_list) ==
  /\ x509' = r.st.x509
  /\ dh_params' = r.st.dh_params
  /\ default_priority' = r.st.default_priority
  /\ x509_cert_count' = r.st.x509_cert_count
  /\ x509_cert' = r.st.x509_cert
  /\ x509_key' = r.st.x509_key
  /\ setup' = [calls |-> setup.calls + 1, cert |-> cert, keyfile |-> keyfile, dhfile |-> dhfile,
               cipher_list |-> cipher_list, ret |-> r.rv, log |-> r.st.log,
               trace |-> r.st.trace]

rb_lib_log(c, msg) == [c EXCEPT !.log = Append(@, msg)]
\* a call into the engine, in program order
EngineCall(c, fn) == [c EXCEPT !.trace = Append(@, fn)]

\* at most DatumCap bytes are read, in one fread of that many bytes
rb_load_file_into_datum_t(file) ==
  LET f == FileSystem(file)
      size == IF f.size > DatumCap THEN DatumCap ELSE f.size
      \* fread(data, size, 1, f) returns 0 for a size of 0
      count == IF size > 0 THEN 1 ELSE 0
  IN IF ~f.exists THEN NoDatum
     ELSE IF count # 1 THEN NoDatum
     ELSE [data |-> file, size |-> size, whole |-> (size = f.size), kind |-> f.kind, n |-> f.n]

\* a PEM block cut short by the cap does not parse
PrivkeyParses(d) == d.kind = "key" /\ d.whole
PairAccepted(d_cert, d_key) == d_key.data = "own.key"
DhParses(d) == d.kind = "dh" /\ d.whole
PriorityParses(cipher_list) == cipher_list = "NORMAL"

\* gnutls_x509_crt_list_import(x509_cert, &x509_cert_count, d_cert, PEM,
\* FAIL_IF_EXCEED): [st, rv]
gnutls_x509_crt_list_import(c, d_cert, exceed) ==
  LET c1 == EngineCall(c, "gnutls_x509_crt_list_import")
      max == c.x509_cert_count
      listed == d_cert.kind = "certs" /\ d_cert.whole
  IN IF ~listed
     THEN [st |-> c1, rv |-> -1]
     ELSE IF d_cert.n > max
     THEN IF exceed = "counted"
          THEN [st |-> [c1 EXCEPT !.x509_cert_count = d_cert.n], rv |-> -1]
          ELSE [st |-> [c1 EXCEPT !.x509_cert =
                           [i \in 1..MAX_CERTS |->
                              IF i <= max
                              THEN [file |-> d_cert.data, idx |-> i, live |-> FALSE]
                              ELSE @[i]]],
                rv |-> -1]
     ELSE [st |-> [c1 EXCEPT !.x509_cert =
                      [i \in 1..MAX_CERTS |->
                         IF i <= d_cert.n
                         THEN [file |-> d_cert.data, idx |-> i, live |-> TRUE]
                         ELSE @[i]],
                    !.x509_cert_count = d_cert.n],
           rv |-> d_cert.n]

\* lines 418-439: the optional DH parameters
setup_dh_params(c, dhfile, dhinit) ==
  IF dhfile = NULL THEN c
  ELSE IF dhinit # "ok"
  THEN rb_lib_log(EngineCall(c, "gnutls_dh_params_init"),
                  "Unable to setup DH parameters")
  ELSE LET c1 == [EngineCall(c, "gnutls_dh_params_init") EXCEPT !.dh_params = "empty"]
           data == rb_load_file_into_datum_t(dhfile)
           c2 == EngineCall(c1, "gnutls_dh_params_import_pkcs3")
           c3 == IF data.data = NULL THEN c1
                 ELSE IF DhParses(data) THEN [c2 EXCEPT !.dh_params = "parsed"]
                 ELSE rb_lib_log(c2, "Error parsing DH file")
       IN [EngineCall(c3, "gnutls_certificate_set_dh_params")
             EXCEPT !.x509.dh = c3.dh_params]

\* lines 441-449: the cipher policy
setup_priority(c, cipher_list) ==
  LET c1 == EngineCall(c, "gnutls_priority_init")
  IN IF ~PriorityParses(cipher_list)
     THEN [st |-> [EngineCall(rb_lib_log(c1, "syntax error (using defaults instead) in ssl cipher list"),
                              "gnutls_priority_init")
                     EXCEPT !.default_priority = "default"],
           rv |-> 1]
     ELSE [st |-> [c1 EXCEPT !.default_priority = cipher_list], rv |-> 1]

\* rb_setup_ssl_server importing the certificate list before the private key
rb_setup_ssl_server_chainfirst(c, cert, keyfile, dhfile, cipher_list, exceed, dhinit) ==
  LET d_cert == rb_load_file_into_datum_t(cert)
      d_key == rb_load_file_into_datum_t(keyfile)
      li == gnutls_x509_crt_list_import([c EXCEPT !.x509_cert_count = MAX_CERTS],
                                        d_cert, exceed)
      l1 == [li.st EXCEPT !.x509_cert_count = li.rv]
      k1 == [EngineCall(l1, "gnutls_x509_privkey_init")
               EXCEPT !.x509_key = [state |-> "empty", file |-> NULL]]
      k2 == EngineCall(k1, "gnutls_x509_privkey_import")
      k3 == [k2 EXCEPT !.x509_key = [state |-> "imported", file |-> d_key.data]]
      p1 == EngineCall(k3, "gnutls_certificate_set_x509_key_mem")
      p2 == [p1 EXCEPT !.x509.pairs = @ \cup {<<d_cert.data, d_key.data>>}]
  IN IF cert = NULL
     THEN [st |-> rb_lib_log(c, "No certificate file"), rv |-> 0]
     ELSE IF d_cert.data = NULL
     THEN [st |-> rb_lib_log(c, "Error loading certificate"), rv |-> 0]
     ELSE IF d_key.data = NULL
     THEN [st |-> rb_lib_log(c, "Error loading key"), rv |-> 0]
     ELSE IF li.rv < 0
     THEN [st |-> rb_lib_log(li.st, "Error loading certificate"), rv |-> 0]
     ELSE IF ~PrivkeyParses(d_key)
     THEN [st |-> rb_lib_log(k2, "Error loading key file"), rv |-> 0]
     ELSE IF ~PairAccepted(d_cert, d_key)
     THEN [st |-> rb_lib_log(p1, "Error loading certificate or key file"), rv |-> 0]
     ELSE setup_priority(setup_dh_params(p2, dhfile, dhinit), cipher_list)

rb_setup_ssl_server(c, cert, keyfile, dhfile, cipher_list, exceed, dhinit) ==
  LET d_cert == rb_load_file_into_datum_t(cert)
      d_key == rb_load_file_into_datum_t(keyfile)
      \* gnutls_x509_privkey_init(&x509_key): a new, empty key replaces the
      \* handle that was there
      k1 == [EngineCall(c, "gnutls_x509_privkey_init")
               EXCEPT !.x509_key = [state |-> "empty", file |-> NULL]]
      k2 == EngineCall(k1, "gnutls_x509_privkey_import")
      k3 == [k2 EXCEPT !.x509_key = [state |-> "imported", file |-> d_key.data],
                       !.x509_cert_count = MAX_CERTS]
      li == gnutls_x509_crt_list_import(k3, d_cert, exceed)
      l1 == [li.st EXCEPT !.x509_cert_count = li.rv]
      p1 == EngineCall(l1, "gnutls_certificate_set_x509_key_mem")
      p2 == [p1 EXCEPT !.x509.pairs = @ \cup {<<d_cert.data, d_key.data>>}]
  IN IF cert = NULL
     THEN [st |-> rb_lib_log(c, "No certificate file"), rv |-> 0]
     ELSE IF d_cert.data = NULL
     THEN [st |-> rb_lib_log(c, "Error loading certificate"), rv |-> 0]
     ELSE IF d_key.data = NULL
     THEN [st |-> rb_lib_log(c, "Error loading key"), rv |-> 0]
     ELSE IF ~PrivkeyParses(d_key)
     THEN [st |-> rb_lib_log(k2, "Error loading key file"), rv |-> 0]
     ELSE IF li.rv < 0
     THEN [st |-> rb_lib_log(li.st, "Error loading certificate"), rv |-> 0]
     ELSE IF ~PairAccepted(d_cert, d_key)
     THEN [st |-> rb_lib_log(p1, "Error loading certificate or key file"), rv |-> 0]
     ELSE setup_priority(setup_dh_params(p2, dhfile, dhinit), cipher_list)

(* ----------------------------------------------------------- fingerprints *)

Methods == {RB_SSL_CERTFP_METH_CERT_SHA1, RB_SSL_CERTFP_METH_CERT_SHA256,
            RB_SSL_CERTFP_METH_CERT_SHA512, RB_SSL_CERTFP_METH_SPKI_SHA256,
            RB_SSL_CERTFP_METH_SPKI_SHA512, "unknown"}
SpkiMethods == {RB_SSL_CERTFP_METH_SPKI_SHA256, RB_SSL_CERTFP_METH_SPKI_SHA512}

\* what the peer of a session presented: no X.509 certificate type, no
\* certificate list, a first certificate that does not import, a certificate
PeerCerts == {"openpgp", "nolist", "malformed", "peerA", "peerB"}
FpFiles == {"absent.pem", "junk.pem", "chain1.pem", "chain7.pem"}

\* what digest_size holds when make_certfp passes it to the engine: it was
\* never assigned
DigestSizeGarbage == {0, RB_SSL_CERTFP_LEN_SHA256, 2 * RB_SSL_CERTFP_LEN}

\* the engine call that fails for want of memory or on a malformed key
EngineFailures == {"ok", "gnutls_x509_crt_init", "gnutls_x509_crt_get_fingerprint",
                   "gnutls_pubkey_init", "gnutls_pubkey_import_x509",
                   "gnutls_pubkey_export", "gnutls_hash_fast"}

NoFp == [fn |-> "none", cert |-> NULL, method |-> NULL, fails |-> "ok",
         made |-> FALSE, len |-> 0, ret |-> 0, certfp |-> << >>]

\* the digest the engine computes: of the whole certificate or of its public
\* key, with the given algorithm
Digest(algo, cert, spki) ==
  <<algo, cert, IF spki THEN "spki" ELSE "cert">>

\* [len, certfp]: the length returned and what was copied to certfp (the
\* empty sequence: nothing)
make_certfp(cert, method, digest_size, fails) ==
  LET spki == method \in SpkiMethods
      algo == CASE method = RB_SSL_CERTFP_METH_CERT_SHA1 -> "GNUTLS_DIG_SHA1"
                [] method \in {RB_SSL_CERTFP_METH_SPKI_SHA256,
                               RB_SSL_CERTFP_METH_CERT_SHA256} -> "GNUTLS_DIG_SHA256"
                [] method \in {RB_SSL_CERTFP_METH_SPKI_SHA512,
                               RB_SSL_CERTFP_METH_CERT_SHA512} -> "GNUTLS_DIG_SHA512"
                [] OTHER -> NULL
      len0 == CASE algo = "GNUTLS_DIG_SHA1" -> RB_SSL_CERTFP_LEN_SHA1
                [] algo = "GNUTLS_DIG_SHA256" -> RB_SSL_CERTFP_LEN_SHA256
                [] algo = "GNUTLS_DIG_SHA512" -> RB_SSL_CERTFP_LEN_SHA512
                [] OTHER -> 0
      \* gnutls_x509_crt_get_fingerprint(cert, algo, digest, &digest_size)
      \* fails when *digest_size is less than the digest's length
      fingerprinted == fails # "gnutls_x509_crt_get_fingerprint" /\ digest_size >= len0
      der_pubkey == fails \notin {"gnutls_pubkey_init", "gnutls_pubkey_import_x509",
                                  "gnutls_pubkey_export"}
      hashed == der_pubkey /\ fails # "gnutls_hash_fast"
      len == IF spki THEN (IF hashed THEN len0 ELSE 0)
             ELSE (IF fingerprinted THEN len0 ELSE 0)
  IN IF algo = NULL THEN [len |-> 0, certfp |-> << >>]
     ELSE IF len # 0 THEN [len |-> len, certfp |-> Digest(algo, cert, spki)]
     ELSE [len |-> 0, certfp |-> << >>]

\* [fn, cert, method, fails, made, len, ret, certfp]: a call of
\* rb_get_ssl_certfp on a session whose peer presented peer
rb_get_ssl_certfp(peer, method, digest_size, fails) ==
  LET r == make_certfp(peer, method, digest_size, fails)
      none == [NoFp EXCEPT !.fn = "rb_get_ssl_certfp", !.method = method,
                           !.fails = fails]
  IN IF peer = "openpgp" THEN none
     ELSE IF fails = "gnutls_x509_crt_init" THEN none
     ELSE IF peer = "nolist" THEN none
     ELSE IF peer = "malformed" THEN none
     ELSE [none EXCEPT !.cert = peer, !.made = TRUE, !.len = r.len, !.ret = r.len,
                       !.certfp = r.certfp]

rb_get_ssl_certfp_file(filename, method, digest_size, fails) ==
  LET d_cert == rb_load_file_into_datum_t(filename)
      r == make_certfp(filename, method, digest_size, fails)
      none == [NoFp EXCEPT !.fn = "rb_get_ssl_certfp_file", !.method = method,
                           !.fails = fails]
  IN IF d_cert.data = NULL THEN [none EXCEPT !.ret = -1]
     ELSE IF fails = "gnutls_x509_crt_init" THEN [none EXCEPT !.ret = -1]
     ELSE IF ~(d_cert.kind = "certs" /\ d_cert.whole) THEN [none EXCEPT !.ret = -1]
     ELSE [none EXCEPT !.cert = filename, !.made = TRUE, !.len = r.len, !.ret = r.len,
                       !.certfp = r.certfp]

(* ------------------------------------------------------------------ Init *)

Init ==
  /\ type = [f \in FDs |-> IF f = "L" THEN {"RB_FD_SOCKET", "RB_FD_LISTEN", RB_FD_SSL}
                           ELSE {"RB_FD_SOCKET"}]
  /\ ssl = [f \in FDs |-> NULL]
  /\ accept = [f \in FDs |-> IF f = "L" THEN "L" ELSE NULL]
  /\ ad = [f \in FDs |-> IF f = "L"
                         THEN [state |-> "live", callback |-> "accb", data |-> "adata",
                               S |-> "zero", addrlen |-> 0]
                         ELSE NoAd]
  /\ connect = [f \in FDs |-> NoConnect]
  /\ sconn = NoSconn
  /\ timeout = [f \in FDs |-> NoHandler]
  /\ read_handler = [f \in FDs |-> NoHandler]
  /\ write_handler = [f \in FDs |-> NoHandler]
  /\ ssl_errno = [f \in FDs |-> 0]
  /\ errno = 0
  /\ engine = [f \in FDs |-> "none"]
  /\ hs_steps = [f \in FDs |-> 0]
  /\ cbLog = << >>
  /\ lastHs = NoHs
  /\ lastRW = NoRW
  /\ ev = NoEv
  /\ asserts = {}
  /\ crashed = FALSE
  /\ started = "none"
  /\ destroyed = [f \in FDs |-> 0]
  /\ sess = [f \in FDs |-> NoSess]
  /\ InitCred
  /\ fp = NoFp
  /\ staleUses = {}

(* --------------------------------------------------------------- actions *)

\* the event being handled: which entry point or event-loop dispatch, on
\* which descriptor, with which handler or status
Event(s, kind, F, arg) == [s EXCEPT !.ev = [kind |-> kind, F |-> F, arg |-> arg]]

\* the outcomes to choose from: all of them where the faulting access can
\* happen, a single unused one elsewhere
NullUB(canFault) == IF canFault THEN NullOutcomes ELSE {"skip"}
FreedUB(canFault) == IF canFault THEN FreedOutcomes ELSE {"stale"}

\* SSL_P(F) read after rb_ssl_shutdown freed F->ssl: the process dies, or the
\* freed session is used as if it were still there
SessionOutcomes == {"crash", "stale"}
SessionUB(F) == IF ssl[F] = "freed" THEN SessionOutcomes ELSE {"stale"}
UseSession(o, s, normal) == IF o = "crash" THEN Crash(s) ELSE normal

\* the application wraps an accepted descriptor: rb_ssl_start_accepted
StartAccepted ==
  /\ ~crashed /\ started = "none"
  /\ \E eng \in EngSteps :
       Commit(rb_ssl_start_accepted(
                [Event(Cur, "rb_ssl_start_accepted", "N", NULL) EXCEPT !.started = "start_accepted"],
                "N", "accb", "adata", eng))

\* the event loop finds descriptor F readable: the read handler is taken off
\* the descriptor and invoked
RunHandler(s, F, h, eng, ub, ub1, ub2) ==
  IF h.handler = "rb_ssl_tryaccept" THEN rb_ssl_tryaccept(s, F, eng, ub)
  ELSE IF h.handler = "rb_ssl_tryconn_cb" THEN rb_ssl_tryconn_cb(s, F, h.data, eng, ub1, ub2)
  ELSE s

ReadReady ==
  /\ ~crashed
  /\ \E F \in FDs :
       /\ read_handler[F].handler # NULL
       /\ hs_steps[F] < MaxSteps
       /\ \E eng \in EngSteps,
             ub \in NullUB(read_handler[F].handler = "rb_ssl_tryaccept" /\ accept[F] = NULL),
             ub1 \in FreedUB(read_handler[F].handler = "rb_ssl_tryconn_cb" /\ sconn.state = "freed"),
             ub2 \in FreedUB(read_handler[F].handler = "rb_ssl_tryconn_cb"),
             o \in SessionUB(F) :
            LET s0 == [Event(Cur, "read_ready", F, read_handler[F].handler)
                         EXCEPT !.read_handler[F] = NoHandler]
            IN Commit(UseSession(o, s0, RunHandler(s0, F, read_handler[F], eng, ub, ub1, ub2)))

WriteReady ==
  /\ ~crashed
  /\ \E F \in FDs :
       /\ write_handler[F].handler # NULL
       /\ hs_steps[F] < MaxSteps
       /\ \E eng \in EngSteps,
             ub \in NullUB(write_handler[F].handler = "rb_ssl_tryaccept" /\ accept[F] = NULL),
             ub1 \in FreedUB(write_handler[F].handler = "rb_ssl_tryconn_cb" /\ sconn.state = "freed"),
             ub2 \in FreedUB(write_handler[F].handler = "rb_ssl_tryconn_cb"),
             o \in SessionUB(F) :
            LET s0 == [Event(Cur, "write_ready", F, write_handler[F].handler)
                         EXCEPT !.write_handler[F] = NoHandler]
            IN Commit(UseSession(o, s0, RunHandler(s0, F, write_handler[F], eng, ub, ub1, ub2)))

\* the event loop finds the timer of F expired: the timer is removed and its
\* handler invoked
\* rb_connect_timeout reports RB_ERR_TIMEOUT through rb_connect_callback, which
\* here still holds rb_ssl_tryconn
RunTimeout(s, F, t, ub, ub1) ==
  IF t.handler = "rb_ssl_timeout" THEN rb_ssl_timeout(s, F, ub)
  ELSE IF t.handler = "rb_ssl_tryconn_timeout_cb" THEN rb_ssl_tryconn_timeout_cb(s, F, ub1)
  ELSE IF t.handler = "rb_connect_timeout"
  THEN rb_ssl_tryconn([s EXCEPT !.connect[F].callback = NULL], F, RB_ERR_TIMEOUT, NoEng, ub1)
  ELSE s

TimerExpire ==
  /\ ~crashed
  /\ \E F \in FDs :
       /\ timeout[F].handler # NULL
       /\ \E ub \in NullUB(timeout[F].handler = "rb_ssl_timeout" /\ accept[F] = NULL),
             ub1 \in FreedUB(sconn.state = "freed") :
            Commit(RunTimeout([Event(Cur, "timer", F, timeout[F].handler) EXCEPT !.timeout[F] = NoHandler],
                              F, timeout[F], ub, ub1))

\* the listener accepted a raw connection: rb_ssl_accept_setup
AcceptSetup ==
  /\ ~crashed /\ started = "none"
  /\ \E st \in PeerAddrs, eng \in EngSteps, ub \in NullUB(ssl["L"] = NULL) :
       Commit(rb_ssl_accept_setup(
                [Event(Cur, "rb_ssl_accept_setup", "N", NULL) EXCEPT !.started = "accept_setup"],
                "L", "N", st, eng, ub))

\* the application wraps a connected descriptor: rb_ssl_start_connected
StartConnected ==
  /\ ~crashed /\ started = "none"
  /\ \E F \in {"N", NULL}, eng \in EngSteps :
       Commit(rb_ssl_start_connected(
                IF F = NULL THEN Cur
                ELSE [Event(Cur, "rb_ssl_start_connected", F, NULL) EXCEPT !.started = "start_connected"],
                F, "cncb", "cdata", eng))

\* the application starts a TLS connect to a remote host: rb_connect_tcp_ssl
ConnectTcpSsl ==
  /\ ~crashed /\ started = "none"
  /\ \E F \in {"N", NULL} :
       Commit(rb_connect_tcp_ssl(
                IF F = NULL THEN Cur
                ELSE [Event(Cur, "rb_connect_tcp_ssl", F, NULL) EXCEPT !.started = "connect_tcp_ssl"],
                F, "cncb", "cdata"))

\* the raw connect completes: rb_connect_callback takes rb_ssl_tryconn off
\* F->connect, removes the connect timer and calls it with the status
TcpConnectDone ==
  /\ ~crashed
  /\ \E F \in FDs :
       /\ connect[F].state = "live"
       /\ connect[F].callback = "rb_ssl_tryconn"
       /\ \E status \in TcpStatuses \ {RB_ERR_TIMEOUT}, eng \in EngSteps,
             ub \in FreedUB(sconn.state = "freed") :
            Commit(rb_ssl_tryconn(
                     rb_settimeout([Event(Cur, "tcp_connect_done", F, status)
                                      EXCEPT !.connect[F].callback = NULL],
                                   F, NULL, NULL),
                     F, status, eng, ub))

\* what the engine can answer to a record read or write
IoSteps == EngAnswers(IoRets)

\* a descriptor is handed to the application once a callback reported RB_OK
Established(F) ==
  /\ ssl[F] # NULL
  /\ \E i \in 1..Len(cbLog) : cbLog[i].F = F /\ cbLog[i].status = RB_OK

RbSslRead ==
  /\ ~crashed
  /\ \E F \in FDs :
       /\ Established(F)
       /\ \E io \in IoSteps, o \in SessionUB(F) :
            LET s0 == Event(Cur, "rb_ssl_read", F, NULL)
            IN Commit(UseSession(o, s0, rb_ssl_read(s0, F, io).st))

RbSslWrite ==
  /\ ~crashed
  /\ \E F \in FDs :
       /\ Established(F)
       /\ \E io \in IoSteps, o \in SessionUB(F) :
            LET s0 == Event(Cur, "rb_ssl_write", F, NULL)
            IN Commit(UseSession(o, s0, rb_ssl_write(s0, F, io).st))

\* the application (or rb_close) shuts a session down: rb_ssl_shutdown
ByeTries == 1..4

RbSslShutdown ==
  /\ ~crashed
  /\ \E F \in FDs :
       /\ ssl[F] # NULL
       /\ destroyed[F] < MaxShutdowns
       /\ \E byes \in ByeTries, o \in SessionUB(F) :
            Commit(UseSession(o, Event(Cur, "rb_ssl_shutdown", F, byes),
                              rb_ssl_shutdown(Cur, F, byes)))

Next ==
  \/ StartAccepted
  \/ AcceptSetup
  \/ StartConnected
  \/ ConnectTcpSsl
  \/ TcpConnectDone
  \/ ReadReady
  \/ WriteReady
  \/ TimerExpire
  \/ RbSslRead
  \/ RbSslWrite

Spec == Init /\ [][Next]_vars

\* the handshake flows with rb_ssl_shutdown called at any moment of a
\* session's life (no record traffic)
NextLifecycle ==
  \/ StartAccepted
  \/ AcceptSetup
  \/ StartConnected
  \/ ConnectTcpSsl
  \/ TcpConnectDone
  \/ ReadReady
  \/ WriteReady
  \/ TimerExpire
  \/ RbSslShutdown

SpecLifecycle == Init /\ [][NextLifecycle]_vars

\* everything but the credential state
drivervars == <<type, ssl, accept, ad, connect, sconn, timeout, read_handler,
                write_handler, ssl_errno, errno, engine, hs_steps, cbLog, lastHs,
                lastRW, ev, asserts, crashed, started, destroyed, sess,
                staleUses>>

\* the outcomes to choose from where the engine's choice can matter
ExceedUB(cert) == IF FileSystem(cert).n > MAX_CERTS THEN ExceedOutcomes ELSE {"counted"}
DhInitUB(dhfile) == IF dhfile # NULL THEN DhInitOutcomes ELSE {"ok"}

\* the server (re)loads its credentials before it starts sessions:
\* rb_setup_ssl_server with its arguments taken from the given sets
SetupFrom(certs, keyfiles, dhfiles, cipher_lists) ==
  /\ ~crashed /\ started = "none"
  /\ setup.calls < MaxSetups
  /\ \E cert \in certs, keyfile \in keyfiles, dhfile \in dhfiles,
        cipher_list \in cipher_lists :
       \E exceed \in ExceedUB(cert), dhinit \in DhInitUB(dhfile) :
         CommitCred(rb_setup_ssl_server(CurCred, cert, keyfile, dhfile, cipher_list,
                                        exceed, dhinit),
                    cert, keyfile, dhfile, cipher_list)
  /\ UNCHANGED <<drivervars, fp>>

\* any configuration
RbSetupSslServer == SetupFrom(CertPaths, KeyPaths, DhPaths, CipherLists)

\* a configuration whose certificate and key load
RbSetupSslServerLoaded == SetupFrom({"chain1.pem"}, {"own.key"}, DhPaths, CipherLists)

NextSetup ==
  \/ RbSetupSslServer

SpecSetup == Init /\ [][NextSetup]_vars

\* the server loads its credentials and then starts sessions
NextServer ==
  \/ RbSetupSslServerLoaded
  \/ StartAccepted
  \/ AcceptSetup
  \/ StartConnected
  \/ ConnectTcpSsl
  \/ TcpConnectDone

SpecServer == Init /\ [][NextServer]_vars

\* the engine failures and digest_size values to choose from where they can
\* matter
FailuresOf(method) ==
  IF method \in SpkiMethods
  THEN EngineFailures \ {"gnutls_x509_crt_get_fingerprint"}
  ELSE {"ok", "gnutls_x509_crt_init", "gnutls_x509_crt_get_fingerprint"}
GarbageOf(method) ==
  IF method \in Methods \ (SpkiMethods \cup {"unknown"}) THEN DigestSizeGarbage ELSE {0}

\* the application asks for the fingerprint of a session's peer
RbGetSslCertfp ==
  /\ ~crashed
  /\ \E F \in FDs :
       /\ Established(F)
       /\ ssl[F] # "freed"
       /\ \E peer \in PeerCerts, method \in Methods :
            \E digest_size \in GarbageOf(method), fails \in FailuresOf(method) :
              fp' = rb_get_ssl_certfp(peer, method, digest_size, fails)
  /\ UNCHANGED <<drivervars, credvars>>

\* the application asks for the fingerprint of a certificate file
RbGetSslCertfpFile ==
  /\ ~crashed
  /\ \E filename \in FpFiles, method \in Methods :
       \E digest_size \in GarbageOf(method), fails \in FailuresOf(method) :
         fp' = rb_get_ssl_certfp_file(filename, method, digest_size, fails)
  /\ UNCHANGED <<drivervars, credvars>>

NextCertfp ==
  \/ StartAccepted
  \/ RbGetSslCertfp
  \/ RbGetSslCertfpFile

SpecCertfp == Init /\ [][NextCertfp]_vars

(* ================================================================ claims *)

AcceptCalls(F) ==
  {i \in 1..Len(cbLog) : cbLog[i].kind = "accept" /\ cbLog[i].F = F}

ConnectCalls(F) ==
  {i \in 1..Len(cbLog) : cbLog[i].kind = "connect" /\ cbLog[i].F = F}

\* C1: a descriptor put through the accept flow gets its accept callback at
\* most once, with status RB_OK, RB_ERROR_SSL or RB_ERR_TIMEOUT, whatever the
\* engine answers and however readiness and the timer interleave.
C1_AcceptCallbackOnce ==
  \A F \in FDs :
    /\ Cardinality(AcceptCalls(F)) <= 1
    /\ \A i \in AcceptCalls(F) : cbLog[i].status \in {RB_OK, RB_ERROR_SSL, RB_ERR_TIMEOUT}

\* C2: a descriptor put through the connect flow gets its connect callback at
\* most once; a handshake step failing in rb_ssl_tryconn_cb gives one
\* RB_ERROR_SSL notification and no second one.
C2_ConnectCallbackOnce ==
  \A F \in FDs : Cardinality(ConnectCalls(F)) <= 1

\* C3: once rb_ssl_timeout has reported RB_ERR_TIMEOUT for a descriptor, the
\* descriptor's accept context is cleared and no later callback follows for it.
C3_TimeoutTearsDown ==
  \A F \in FDs : \A i \in AcceptCalls(F) :
    cbLog[i].status = RB_ERR_TIMEOUT
      => /\ accept[F] = NULL
         /\ \A j \in AcceptCalls(F) : j <= i

\* C4: after the accept callback was invoked with RB_OK the accept timer never
\* invokes it again, and rb_ssl_timeout never runs with F->accept cleared (its
\* assertion holds whenever it runs).
C4_CompletionExcludesTimeout ==
  /\ "rb_ssl_timeout" \notin asserts
  /\ \A F \in FDs : \A i \in AcceptCalls(F), j \in AcceptCalls(F) :
       ~(i < j /\ cbLog[i].status = RB_OK /\ cbLog[j].status = RB_ERR_TIMEOUT)

\* C5: an accept callback delivered for a session whose handshake the engine
\* has failed carries RB_ERROR_SSL, a NULL address and length 0, never RB_OK.
C5_AcceptFailureStatus ==
  \A i \in 1..Len(cbLog) :
    (cbLog[i].kind = "accept" /\ cbLog[i].engine = "failed")
      => /\ cbLog[i].status = RB_ERROR_SSL
         /\ cbLog[i].S = NULL
         /\ cbLog[i].addrlen = 0

\* C6: whenever the accept callback is invoked with RB_OK, F->accept is
\* already cleared, the accept timer is already cancelled, no handshake
\* readiness handler is left on the descriptor, and the context is not yet
\* freed.
C6_OkCallbackOrdering ==
  \A i \in 1..Len(cbLog) :
    (cbLog[i].kind = "accept" /\ cbLog[i].status = RB_OK)
      => /\ cbLog[i].acceptNull
         /\ ~cbLog[i].timerArmed
         /\ ~cbLog[i].selectArmed
         /\ cbLog[i].ctxState = "live"

\* the raw connect of F has just completed with a status other than RB_OK
RawConnectFailed ==
  \/ ev.kind = "tcp_connect_done" /\ ev.arg # RB_OK
  \/ ev.kind = "timer" /\ ev.arg = "rb_connect_timeout"

RawStatus == IF ev.kind = "timer" THEN RB_ERR_TIMEOUT ELSE ev.arg

\* C7: when the raw TCP connect started by rb_connect_tcp_ssl completes with a
\* status other than RB_OK, the caller's connect callback gets exactly that
\* status, once, and no engine session is created, no handshake timer is
\* armed and no handshake step is taken.
C7_RawConnectFailureForwarded ==
  RawConnectFailed
    => /\ Len(cbLog) = 1
       /\ cbLog[1].kind = "connect"
       /\ cbLog[1].F = ev.F
       /\ cbLog[1].fn = "cncb"
       /\ cbLog[1].data = "cdata"
       /\ cbLog[1].status = RawStatus
       /\ ssl[ev.F] = NULL
       /\ engine[ev.F] = "none"
       /\ RB_FD_SSL \notin type[ev.F]
       /\ timeout[ev.F].handler = NULL
       /\ hs_steps[ev.F] = 0
       /\ read_handler[ev.F].handler = NULL
       /\ write_handler[ev.F].handler = NULL

C7_Witness ==
  /\ ev.kind = "tcp_connect_done"
  /\ ev.arg = RB_ERR_CONNECT
  /\ Len(cbLog) = 1
  /\ cbLog[1].status = RB_ERR_CONNECT

\* C8: rb_ssl_read and rb_ssl_write return a non-negative engine result
\* unchanged and leave F->ssl_errno alone; a would-block return value is
\* RB_RW_SSL_NEED_READ exactly when the engine's record direction is 0,
\* whichever operation was asked for; every other negative engine result gives
\* RB_RW_IO_ERROR with the engine's code in F->ssl_errno; nothing else is
\* ever returned.
C8_ReadWriteMapping ==
  lastRW.F # NULL
    => /\ lastRW.ret >= 0 => (lastRW.rv = lastRW.ret /\ lastRW.after = lastRW.before)
       /\ lastRW.rv = RB_RW_SSL_NEED_READ => (lastRW.ret < 0 /\ lastRW.dir = 0)
       /\ lastRW.rv = RB_RW_SSL_NEED_WRITE => (lastRW.ret < 0 /\ lastRW.dir # 0)
       /\ (lastRW.ret < 0 /\ lastRW.rv \notin {RB_RW_SSL_NEED_READ, RB_RW_SSL_NEED_WRITE})
            => (lastRW.rv = RB_RW_IO_ERROR /\ lastRW.after = lastRW.ret)
       /\ lastRW.ret < 0
            => lastRW.rv \in {RB_RW_IO_ERROR, RB_RW_SSL_NEED_READ, RB_RW_SSL_NEED_WRITE}
       /\ (ev.kind \in {"rb_ssl_read", "rb_ssl_write"} /\ ev.F = lastRW.F)
            => ssl_errno[lastRW.F] = lastRW.after

\* a read that would block waiting to write, and the error code of an earlier
\* failure still stored
C8_Witness ==
  /\ lastRW.F # NULL
  /\ lastRW.r_or_w = 0
  /\ lastRW.ret = GNUTLS_E_AGAIN
  /\ lastRW.rv = RB_RW_SSL_NEED_WRITE
  /\ lastRW.before \in FatalCodes
  /\ lastRW.after = lastRW.before

\* C9: a would-block or interrupted engine result is never surfaced as an
\* error, whatever errno holds: the handshake driver returns 0, the
\* read/write shim returns a NEED_READ/NEED_WRITE value, and neither stores
\* an error code.
C9_TransientNeverError ==
  /\ (lastHs.F # NULL /\ lastHs.ret \in WouldBlock) => lastHs.rv = 0
  /\ (lastRW.F # NULL /\ lastRW.ret \in WouldBlock)
       => /\ lastRW.rv \in {RB_RW_SSL_NEED_READ, RB_RW_SSL_NEED_WRITE}
          /\ lastRW.after = lastRW.before

TotalSteps == hs_steps["L"] + hs_steps["N"]

\* F has a handshake continuation waiting for readiness
Waiting(F) == read_handler[F].handler # NULL \/ write_handler[F].handler # NULL

\* C10: a call of do_ssl_handshake takes exactly one engine step; when that
\* step would block, the descriptor is registered for exactly one direction
\* (read when the record direction is 0, write otherwise) with the
\* continuation and data given, 0 is returned and no completion callback is
\* invoked; and a descriptor with a continuation waiting takes its next step
\* only when the event loop invokes that continuation.
C10_WouldBlockRegistration ==
  [][ /\ TotalSteps' \in {TotalSteps, TotalSteps + 1}
      /\ \A F \in FDs :
           hs_steps'[F] # hs_steps[F]
             => /\ hs_steps'[F] = hs_steps[F] + 1
                /\ lastHs'.F = F
                /\ lastHs'.ret \in HsRets
                /\ (lastHs'.ret = GNUTLS_E_AGAIN => lastHs'.rv = 0)
                /\ lastHs'.rv = 0
                     => /\ cbLog' = cbLog
                        /\ lastHs'.dir = 0
                             => /\ read_handler'[F] = [handler |-> lastHs'.callback,
                                                       data |-> lastHs'.data]
                                /\ write_handler'[F] = NoHandler
                        /\ lastHs'.dir # 0
                             => /\ write_handler'[F] = [handler |-> lastHs'.callback,
                                                        data |-> lastHs'.data]
                                /\ read_handler'[F] = NoHandler
                /\ Waiting(F)
                     => \/ /\ ev'.kind = "read_ready" /\ ev'.F = F
                           /\ ev'.arg = read_handler[F].handler
                           /\ read_handler[F].handler # NULL
                        \/ /\ ev'.kind = "write_ready" /\ ev'.F = F
                           /\ ev'.arg = write_handler[F].handler
                           /\ write_handler[F].handler # NULL
    ]_vars

\* the second step of a handshake, taken by the read continuation, blocks
\* again and waits to write
C10_Witness ==
  /\ lastHs.F = "N"
  /\ hs_steps["N"] = 2
  /\ ev.kind = "read_ready"
  /\ lastHs.rv = 0
  /\ lastHs.dir = 1
  /\ write_handler["N"] = [handler |-> lastHs.callback, data |-> lastHs.data]
  /\ read_handler["N"] = NoHandler
\* C11: a failing handshake step stores the engine's code in F->ssl_errno,
\* returns -1 and leaves no readiness handler on the descriptor; a step that
\* succeeds or would block leaves F->ssl_errno alone; and every callback
\* delivered with RB_ERROR_SSL finds (and leaves) in F->ssl_errno the code of
\* the handshake step that failed.
C11_FailureRecorded ==
  [][ /\ \A F \in FDs :
           hs_steps'[F] # hs_steps[F]
             => /\ lastHs'.F = F
                /\ lastHs'.rv = -1
                     => /\ lastHs'.ret < 0
                        /\ ssl_errno'[F] = lastHs'.ret
                        /\ read_handler'[F].handler = NULL
                        /\ write_handler'[F].handler = NULL
                /\ lastHs'.rv # -1 => ssl_errno'[F] = ssl_errno[F]
      /\ \A i \in (Len(cbLog) + 1)..Len(cbLog') :
           cbLog'[i].status = RB_ERROR_SSL
             => /\ cbLog'[i].hsret < 0
                /\ cbLog'[i].ssl_errno = cbLog'[i].hsret
                /\ ssl_errno'[cbLog'[i].F] = cbLog'[i].hsret
                /\ lastHs'.F = cbLog'[i].F
                /\ lastHs'.ret = cbLog'[i].hsret
    ]_vars

\* a later step of an accept handshake fails with a fatal alert and the
\* callback reports RB_ERROR_SSL
C11_Witness ==
  /\ Len(cbLog) = 1
  /\ cbLog[1].kind = "accept"
  /\ cbLog[1].status = RB_ERROR_SSL
  /\ lastHs.rv = -1
  /\ lastHs.ret = GNUTLS_E_FATAL_ALERT_RECEIVED
  /\ hs_steps[cbLog[1].F] = 2
  /\ ssl_errno[cbLog[1].F] = GNUTLS_E_FATAL_ALERT_RECEIVED
\* C19: rb_ssl_accept_setup(F, new_F, ...) works on new_F only: the first
\* handshake step and its continuation are on new_F, an immediate callback is
\* delivered for new_F, and the listener F keeps its accept context and takes
\* no handshake step and no readiness handler.
C19_AcceptSetupFrame ==
  ev.kind = "rb_ssl_accept_setup"
    => /\ ~crashed
       /\ lastHs.F = "N"
       /\ hs_steps["N"] = 1
       /\ hs_steps["L"] = 0
       /\ accept["L"] = "L"
       /\ ad["L"].state = "live"
       /\ engine["L"] = "none"
       /\ ~Waiting("L")
       /\ lastHs.rv = 0 => Waiting("N")
       /\ \A i \in 1..Len(cbLog) : cbLog[i].F = "N" /\ cbLog[i].S = ad["N"].S

\* C20: the status given to the connect callback is the engine's handshake
\* outcome (RB_OK when it completed, RB_ERROR_SSL when it failed), and a
\* handshake the engine has completed or failed is not left waiting for the
\* connect timer.
C20_ConnectOutcomeFidelity ==
  /\ \A i \in 1..Len(cbLog) :
       cbLog[i].kind = "connect"
         => /\ cbLog[i].engine = "done" => cbLog[i].status = RB_OK
            /\ cbLog[i].engine = "failed" => cbLog[i].status = RB_ERROR_SSL
  /\ \A F \in FDs :
       engine[F] \in {"done", "failed"} => timeout[F].handler # "rb_ssl_tryconn_timeout_cb"
\* C12: a descriptor takes a handshake step only when its engine handle
\* exists; over any sequence of rb_ssl_shutdown calls the handle is destroyed
\* at most once; and when rb_ssl_shutdown has destroyed it no handshake
\* readiness handler is left on the descriptor.
C12_HandleLifecycle ==
  \A F \in FDs :
    /\ hs_steps[F] > 0 => ssl[F] # NULL
    /\ destroyed[F] <= 1
    /\ (ev.kind = "rb_ssl_shutdown" /\ ev.F = F /\ destroyed[F] > 0) => ~Waiting(F)

\* the call of rb_setup_ssl_server that this step is
SetupCall == setup'.calls = setup.calls + 1

\* C13: when the certificate file holds more than MAX_CERTS certificates,
\* rb_setup_ssl_server returns 0 and leaves the certificate array, its count,
\* the key, the credentials, the DH parameters and the priority as they were
\* before the call.
C13_ChainCapacity ==
  [][(SetupCall /\ FileSystem(setup'.cert).n > MAX_CERTS)
       => /\ setup'.ret = 0
          /\ UNCHANGED <<x509_cert, x509_cert_count, x509_key, x509, dh_params,
                         default_priority>>]_vars

\* the last call was given a certificate and a key that load as a pair
PairLoaded ==
  /\ setup.calls > 0
  /\ "gnutls_certificate_set_x509_key_mem" \in {setup.trace[i] : i \in 1..Len(setup.trace)}
  /\ "Error loading certificate or key file" \notin {setup.log[i] : i \in 1..Len(setup.log)}

\* the last call was given a DH file that can be read and does not parse
CorruptDh ==
  /\ setup.dhfile # NULL
  /\ rb_load_file_into_datum_t(setup.dhfile).data # NULL
  /\ ~DhParses(rb_load_file_into_datum_t(setup.dhfile))

\* C14: with a certificate/key pair that loads and a DH file that does not
\* parse, rb_setup_ssl_server logs a DH warning, returns 1 and the
\* credentials are not bound to the unparsed DH parameters.
C14_CorruptDhDisabled ==
  (PairLoaded /\ CorruptDh)
    => /\ setup.ret = 1
       /\ \E i \in 1..Len(setup.log) :
            setup.log[i] \in {"Error parsing DH file", "Unable to setup DH parameters"}
       /\ x509.dh # "empty"

\* C15: when the cipher list does not parse, rb_setup_ssl_server logs the
\* syntax error, initialises default_priority from the engine's default and
\* returns 1, and every session created afterwards is bound to that priority.
C15_PolicyFallback ==
  (PairLoaded /\ ~PriorityParses(setup.cipher_list))
    => /\ setup.ret = 1
       /\ \E i \in 1..Len(setup.log) :
            setup.log[i] = "syntax error (using defaults instead) in ssl cipher list"
       /\ default_priority = "default"
       /\ \A F \in FDs : engine[F] # "none" => sess[F].priority = "default"

\* where a call of the engine stands in the last call's trace (0: not made)
TracePos(fn) ==
  IF \E i \in 1..Len(setup.trace) : setup.trace[i] = fn
  THEN CHOOSE i \in 1..Len(setup.trace) : setup.trace[i] = fn
  ELSE 0

\* the arguments of the last call make one of the credential loads fail
CredentialLoadFails ==
  LET d_cert == rb_load_file_into_datum_t(setup.cert)
      d_key == rb_load_file_into_datum_t(setup.keyfile)
  IN \/ setup.cert = NULL
     \/ d_cert.data = NULL
     \/ d_key.data = NULL
     \/ ~PrivkeyParses(d_key)
     \/ ~(d_cert.kind = "certs" /\ d_cert.whole /\ d_cert.n <= MAX_CERTS)
     \/ ~PairAccepted(d_cert, d_key)

\* C16: rb_setup_ssl_server returns 0 whenever the certificate path is NULL,
\* the certificate or key file cannot be read, the key or the chain does not
\* parse or the pair is rejected, and it never parses the chain before the
\* private key.
C16_LoadFailuresFatal ==
  setup.calls > 0
    => /\ CredentialLoadFails => setup.ret = 0
       /\ setup.ret = 1 => ~CredentialLoadFails
       /\ TracePos("gnutls_x509_crt_list_import") > 0
            => /\ TracePos("gnutls_x509_privkey_import") > 0
               /\ TracePos("gnutls_x509_privkey_import")
                    < TracePos("gnutls_x509_crt_list_import")

\* a call that parsed the key, then the chain, and failed on the chain
C16_Witness ==
  /\ setup.calls > 0
  /\ CredentialLoadFails
  /\ setup.ret = 0
  /\ TracePos("gnutls_x509_crt_list_import") > TracePos("gnutls_x509_privkey_import")
  /\ setup.log = <<"Error loading certificate">>

\* the digest length of a method (0: not a method)
MethodLen(method) ==
  CASE method = RB_SSL_CERTFP_METH_CERT_SHA1 -> RB_SSL_CERTFP_LEN_SHA1
    [] method \in {RB_SSL_CERTFP_METH_CERT_SHA256, RB_SSL_CERTFP_METH_SPKI_SHA256}
         -> RB_SSL_CERTFP_LEN_SHA256
    [] method \in {RB_SSL_CERTFP_METH_CERT_SHA512, RB_SSL_CERTFP_METH_SPKI_SHA512}
         -> RB_SSL_CERTFP_LEN_SHA512
    [] OTHER -> 0

\* C17: rb_get_ssl_certfp and rb_get_ssl_certfp_file return the digest length
\* of the method when extraction succeeds and 0, never a negative or other
\* value, on every failure; certfp is written only when the returned length
\* is not 0.
C17_FingerprintLength ==
  fp.fn # "none"
    => /\ fp.ret \in {0, MethodLen(fp.method)}
       /\ (fp.cert = NULL \/ fp.fails # "ok" \/ MethodLen(fp.method) = 0) => fp.ret = 0
       /\ fp.certfp # << >> => fp.ret # 0

\* C18: two runs of make_certfp on the same certificate with the same method
\* return the same length and the same bytes.
C18_FingerprintDeterminism ==
  [][(fp.made /\ fp'.made /\ fp'.cert = fp.cert /\ fp'.method = fp.method
        /\ fp'.fails = fp.fails)
       => (fp'.len = fp.len /\ fp'.certfp = fp.certfp)]_vars

\* C21: once rb_ssl_connect_realcb has freed a struct ssl_connect, no later
\* call reads or frees it again, whatever status that call carries.
C21_NoUseAfterRelease ==
  staleUses = {}

====
